---------------------------- MODULE Spec2Model ----------------------------
(***************************************************************************)
(* A model of disSat's scaling relations (src/baryons/smhm.py,             *)
(* src/baryons/galaxy_size.py) and of the SatellitePopulation pipeline     *)
(* (src/satpops.py).                                                       *)
(*                                                                         *)
(* Number representation.  Every physical quantity (a mass, a radius, a    *)
(* dispersion) is a positive float in the code or the float 0.0.  The      *)
(* model stores log10 of the quantity in milli-dex (1e8 Msun is 8000) and  *)
(* stores 0.0 as Zero.  A product is a sum of logs (Times), a comparison   *)
(* of two positive quantities is the comparison of their logs, and         *)
(* x > 0 is x # Zero.  10**normal(0, s) is a deviate d in milli-dex added  *)
(* to the log.                                                             *)
(***************************************************************************)
EXTENDS Integers, Sequences, FiniteSets, TLC

VARIABLES call,        \* the last evaluation of a relation (smhm.py, galaxy_size.py)
          pop,         \* the population's scalar attributes, dark_matter, host, parameters
          rels,        \* the population's Relation attributes: name -> relation object
          flag,        \* relation object -> its sample_scatter attribute
          nsub,        \* host object -> its number_of_subhalos
          properties,  \* the properties mapping: key -> per-satellite array
          stages,      \* the stages of the last generate_population: key written, keys read
          draws,       \* the random draws of the last generate_population
          last,        \* the last operation on the population, and its argument
          synced,      \* whether get_relations has run since the last replacement
          edits        \* how many times the user has reconfigured the population

vars == <<call, pop, rels, flag, nsub, properties, stages, draws, last, synced, edits>>

popvars == <<pop, rels, flag, nsub, properties, stages, draws, last, synced, edits>>

(***************************************************************************)
(* Bounds of the model.                                                    *)
(***************************************************************************)
MaxZ == 2          \* redshifts 0..MaxZ
MaxDex == 2        \* halo masses 1e7 .. 1e(7+MaxDex) Msun, one per dex
MaxLen == 2        \* longest mass array handed to a relation
MaxSubhalos == 2   \* number_of_subhalos the host starts with
MaxKeys == 2       \* most keys in a dictionary handed to set_scatter
MaxEdits == 2      \* most reconfigurations of a population by its user

Zero == -1000000

Times(a, b) == IF a = Zero \/ b = Zero THEN Zero ELSE a + b

Max(a, b) == IF a >= b THEN a ELSE b

Abs(a) == IF a >= 0 THEN a ELSE 0 - a

RECURSIVE Pow10(_)
Pow10(k) == IF k = 0 THEN 1 ELSE 10 * Pow10(k - 1)

RECURSIVE Decade(_)
Decade(n) == IF n < 10 THEN 0 ELSE 1 + Decade(n \div 10)

\* log10 of a positive integer in milli-dex, linear between powers of ten
Log10m(n) == LET k == Decade(n)
             IN  1000 * k + (1000 * (n - Pow10(k))) \div (9 * Pow10(k))

\* log10(10^a + 10^b) in milli-dex: the larger term, plus up to log10(2)
\* when the two are within a dex of each other
LogAdd(a, b) == LET d == Abs(a - b)
                IN  Max(a, b) + (IF d >= 1000 THEN 0 ELSE (301 * (1000 - d)) \div 1000)

(***************************************************************************)
(* src/baryons/smhm.py                                                     *)
(***************************************************************************)
SMHMClasses == {"Moster13", "Dooley17", "Brook14", "Behroozi13"}

\* Moster13.central_value: 2 N m / ((m/M1)^-beta + (m/M1)^gamma), each
\* parameter p10 + p11 * z/(z+1)
Moster13Central(m, z) ==
    LET M1    == 11590 + (1195 * z) \div (z + 1)
        N     == 351 + ((0 - 247) * z) \div (z + 1)       \* in units of 1e-4
        beta  == 1376 + ((0 - 826) * z) \div (z + 1)
        gamma == 608 + (329 * z) \div (z + 1)
        x     == m - M1
    IN  (Log10m(2 * N) - 4000) + m
          - LogAdd(((0 - beta) * x) \div 1000, (gamma * x) \div 1000)

\* The calibration tables data/smhm/*.dat: (halo mass, stellar mass) knots.
DooleyTable == << <<7000, 2000>>, <<9000, 5000>>, <<12000, 10500>> >>

BrookTable == << <<7000, 1500>>, <<10000, 7600>>, <<12000, 10800>> >>

BehrooziTable == << <<7000, 3000>>, <<10000, 7300>>, <<12000, 10600>> >>

\* interp1d(kind='linear', fill_value='extrapolate'): the segment holding x,
\* the first or the last segment outside the table
RECURSIVE Segment(_, _, _)
Segment(tab, x, i) ==
    IF i >= Len(tab) - 1 \/ x < tab[i + 1][1] THEN i ELSE Segment(tab, x, i + 1)

Interp(tab, x) ==
    LET i  == Segment(tab, x, 1)
        x0 == tab[i][1]
        y0 == tab[i][2]
        x1 == tab[i + 1][1]
        y1 == tab[i + 1][2]
    IN  y0 + ((y1 - y0) * (x - x0)) \div (x1 - x0)

RedshiftWarning(cls) ==
    CASE cls = "Dooley17"   -> "Dooley+ 2017 SMHM has no support for z>0, using z=0 relation!"
      [] cls = "Brook14"    -> "Brook+ 2014 SMHM has no support for z>0, using z=0 relation!"
      [] cls = "Behroozi13" -> "Behroozi+ 2013 SMHM relation for z>0 not implemented, using z=0 relation!"

ScatterWarning(cls) ==
    CASE cls = "Dooley17"   -> "scatter in Dooley+ 2017 SMHM relation not quantified, using Moster+ 2013 scatter!"
      [] cls = "Brook14"    -> "scatter in Brook+ 2014 SMHM relation not quantified, using Moster+ 2013 scatter!"
      [] cls = "Behroozi13" -> "scatter in Behroozi+ 2013 SMHM relation not quantified, using Moster+ 2013 scatter!"

\* cls.central_value(mass, z) on one element: the value
CentralValue(cls, m, z) ==
    CASE cls = "Moster13"   -> Moster13Central(m, z)
      [] cls = "Dooley17"   -> Interp(DooleyTable, m)
      [] cls = "Brook14"    -> Interp(BrookTable, m)
      [] cls = "Behroozi13" -> Interp(BehrooziTable, m)

\* central_value warning whatever the redshift asked for
CentralWarningsAnyZ(cls, z) ==
    IF cls # "Moster13" THEN <<RedshiftWarning(cls)>> ELSE << >>

\* cls.central_value(mass, z): the warnings it emits
CentralWarnings(cls, z) ==
    IF cls # "Moster13" /\ z # 0 THEN <<RedshiftWarning(cls)>> ELSE << >>

\* cls.scatter(): 0.15 dex for every SMHM relation
SMHMScatter(cls) == 150

\* cls.scatter(): the warnings it emits
SMHMScatterWarnings(cls) ==
    IF cls # "Moster13" THEN <<ScatterWarning(cls)>> ELSE << >>

\* the values random.normal(loc=0, scale, size) may return, per element
Deviates(scale) == {0 - scale, 0, scale}

\* `if self.sample_scatter:`
Truthy(f) == f = TRUE

\* SMHM.__call__ with the test of sample_scatter lost: scatter always sampled
SMHMCallValueAlways(cls, f, mass, z, dev) ==
    [i \in DOMAIN mass |-> Times(CentralValue(cls, mass[i], z), dev[i])]

\* SMHM.__call__(mass, z) on a relation of class cls whose sample_scatter
\* is f, the random deviates being dev (one per element)
SMHMCallValue(cls, f, mass, z, dev) ==
    [i \in DOMAIN mass |->
        LET median == CentralValue(cls, mass[i], z)
        IN  IF Truthy(f) THEN Times(median, dev[i]) ELSE median]

SMHMCallWarnings(cls, f, z) ==
    CentralWarnings(cls, z) \o (IF Truthy(f) THEN SMHMScatterWarnings(cls) ELSE << >>)

\* the wrapper falling back on its default relation for an unknown string
ModelClassLenient(model) ==
    CASE model = "d17" -> "Dooley17"
      [] model = "b14" -> "Brook14"
      [] model = "b13" -> "Behroozi13"
      [] OTHER         -> "Moster13"

\* the wrapper SMHM(mhalo, model, z, scatter): the class it constructs
ModelClass(model) ==
    CASE model = "m13" -> "Moster13"
      [] model = "d17" -> "Dooley17"
      [] model = "b14" -> "Brook14"
      [] model = "b13" -> "Behroozi13"
      [] OTHER         -> "none"

(***************************************************************************)
(* src/baryons/galaxy_size.py                                              *)
(***************************************************************************)
\* Read17.central_value: 10**(0.268*log10(mstar) - 2.11)
Read17Central(mstar) == (268 * mstar) \div 1000 - 2110

Read17Scatter == 234

GalaxySizeCallValue(f, mstar, dev) ==
    [i \in DOMAIN mstar |->
        LET median == Read17Central(mstar[i])
        IN  IF Truthy(f) THEN Times(median, dev[i]) ELSE median]


(***************************************************************************)
(* Evaluating a relation: the inputs, and the record of one evaluation.    *)
(***************************************************************************)
Redshifts == 0 .. MaxZ

HaloMasses == {7000 + 1000 * k : k \in 0 .. MaxDex}

StellarMassInputs == {3000 + 1000 * k : k \in 0 .. MaxDex}

ModelStrings == {"m13", "d17", "b14", "b13", "M13", "b15", ""}

ArraysOf(S) == UNION {[1 .. n -> S] : n \in 1 .. MaxLen}

\* what random.normal(loc=0, scale, size=len(mass)) may return
Normal(scale, mass) == [DOMAIN mass -> Deviates(scale)]

\* The record of one evaluation: the call and its arguments, then what
\* came of it.  status is "pending" until the call has been made.
Idle == [op |-> "none", cls |-> "none", model |-> "none", mass |-> << >>, z |-> 0,
         scatter |-> FALSE, status |-> "pending", constructed |-> "none",
         evaluated |-> FALSE, median |-> << >>, result |-> << >>, warnings |-> << >>]

\* cls(scatter=f)(mass, z=z)
RelationRequests ==
    {[Idle EXCEPT !.op = "SMHM.__call__", !.cls = cls, !.mass = mass, !.z = z,
                  !.scatter = f] :
        cls \in SMHMClasses, mass \in ArraysOf(HaloMasses), z \in Redshifts,
        f \in BOOLEAN}

\* Read17(scatter=f)(mstar)
GalaxySizeRequests ==
    {[Idle EXCEPT !.op = "GalaxySize.__call__", !.cls = "Read17", !.mass = mstar,
                  !.scatter = f] :
        mstar \in ArraysOf(StellarMassInputs), f \in BOOLEAN}

\* SMHM(mhalo, model, z, scatter)
WrapperRequests ==
    {[Idle EXCEPT !.op = "SMHM", !.model = model, !.mass = mhalo, !.z = z,
                  !.scatter = scatter] :
        model \in ModelStrings, mhalo \in ArraysOf(HaloMasses), z \in Redshifts,
        scatter \in BOOLEAN}

\* SMHM.__init__ then SMHM.__call__
CallRelation ==
    /\ call.op = "SMHM.__call__"
    /\ call.status = "pending"
    /\ \E dev \in Normal(SMHMScatter(call.cls), call.mass) :
          call' = [call EXCEPT
                     !.status = "returned",
                     !.constructed = call.cls,
                     !.evaluated = TRUE,
                     !.median = [i \in DOMAIN call.mass |->
                                    CentralValue(call.cls, call.mass[i], call.z)],
                     !.result = SMHMCallValue(call.cls, call.scatter, call.mass,
                                              call.z, dev),
                     !.warnings = SMHMCallWarnings(call.cls, call.scatter, call.z)]
    /\ UNCHANGED popvars

\* GalaxySize.__init__ then GalaxySize.__call__
CallGalaxySize ==
    /\ call.op = "GalaxySize.__call__"
    /\ call.status = "pending"
    /\ \E dev \in Normal(Read17Scatter, call.mass) :
          call' = [call EXCEPT
                     !.status = "returned",
                     !.constructed = "Read17",
                     !.evaluated = TRUE,
                     !.median = [i \in DOMAIN call.mass |-> Read17Central(call.mass[i])],
                     !.result = GalaxySizeCallValue(call.scatter, call.mass, dev)]
    /\ UNCHANGED popvars

\* the wrapper, lines 179-184: no relation for this model string
CallSMHMRaises ==
    /\ call.op = "SMHM"
    /\ call.status = "pending"
    /\ ModelClass(call.model) = "none"
    /\ call' = [call EXCEPT !.status = "ValueError"]
    /\ UNCHANGED popvars

\* the wrapper, lines 179-186: the relation is constructed and called
CallSMHMReturns ==
    /\ call.op = "SMHM"
    /\ call.status = "pending"
    /\ ModelClass(call.model) # "none"
    /\ LET cls == ModelClass(call.model)
       IN  \E dev \in Normal(SMHMScatter(cls), call.mass) :
              call' = [call EXCEPT
                         !.status = "returned",
                         !.cls = cls,
                         !.constructed = cls,
                         !.evaluated = TRUE,
                         !.median = [i \in DOMAIN call.mass |->
                                        CentralValue(cls, call.mass[i], call.z)],
                         !.result = SMHMCallValue(cls, call.scatter, call.mass,
                                                  call.z, dev),
                         !.warnings = SMHMCallWarnings(cls, call.scatter, call.z)]
    /\ UNCHANGED popvars

NextRel == CallRelation \/ CallGalaxySize \/ CallSMHMRaises \/ CallSMHMReturns


(***************************************************************************)
(* src/satpops.py: the objects a population refers to.                     *)
(*                                                                         *)
(* hosts, dark_matter, relations.Relation, the concentration and           *)
(* occupation-fraction relations and vutils.mvir2sigLOS are imported by    *)
(* satpops.py; what the population needs of them is modelled here.         *)
(***************************************************************************)
Empty == [x \in {} |-> x]

Hosts == {"MilkyWay", "MilkyWay2"}

DarkMatters == {"CDM", "SIDM", "WDM"}

DensityProfiles == {"mix", "nfw", "coreNFW"}

\* host.mass()
HostMass(h) == 12000

\* the Relation attributes of a host: host.__dict__
HostRelations(h) ==
    IF h = "MilkyWay" THEN "subhalo_mass_function" :> "SMF_MilkyWay"
                      ELSE "subhalo_mass_function" :> "SMF_MilkyWay2"

\* the Relation attributes of a dark-matter model: dark_matter.__dict__
DMRelations(d) ==
    CASE d = "CDM"  -> Empty
      [] d = "SIDM" -> "modified_concentration" :> "MC_SIDM"
      [] d = "WDM"  -> "modified_concentration" :> "MC_WDM"

\* a relation the user constructs to put on the population under `name`
Custom(name) ==
    IF name = "subhalo_mass_function" THEN "SMF_custom" ELSE "MC_custom"

CopiedNames == {"subhalo_mass_function", "modified_concentration"}

\* isinstance(relation, dark_matter.models.ModifiedConcentration)
IsModifiedConcentration(obj) == obj \in {"MC_SIDM", "MC_WDM", "MC_custom"}

\* the halo masses host.subhalo_mass_function may return: below, at and
\* above mswitch_profile
MswitchProfile == 8699

PopMasses == {MswitchProfile - 500, MswitchProfile, MswitchProfile + 500}

\* dark_matter.transfer_function(m, mWDM), per mille: small halos are suppressed
TransferFunction(m) ==
    LET t == (m - 7701) \div 2 IN IF t < 0 THEN 0 ELSE IF t > 1000 THEN 1000 ELSE t

\* the values random.random() may return, per mille
Uniforms == {249, 999}

\* the deviate the population's relations draw: the pipeline is followed
\* along one representative draw, one sigma up (SpecRel ranges over Deviates)
Draw(scale, mass) == [i \in DOMAIN mass |-> scale]

\* self.concentration(mass, z) and its scatter of 0.16 dex
ConcentrationValue(f, mass, z) ==
    [i \in DOMAIN mass |->
        LET median == 1900 - (mass[i] - 8000) \div 10 - 100 * z
        IN  IF Truthy(f) THEN median + 160 ELSE median]

\* ModifiedConcentration.__call__(mass, c, dark_matter, z)
ModifiedConcentrationValue(c, d) ==
    [i \in DOMAIN c |-> IF d = "CDM" THEN c[i] ELSE c[i] - 100]

\* mvir2sigLOS(mass, profile, mleft, zin, mstar, Re0, c200, cNFW_method, sigmaSI)
MvirToSigLOS(m, profile, mstar, re, c, sigmaSI) ==
    (m - 7000) \div 3 + re \div 10 + c \div 100
      - (IF profile = "nfw" THEN 0 ELSE 40) - (IF sigmaSI THEN 20 ELSE 0)

(***************************************************************************)
(* src/satpops.py: SatellitePopulation                                     *)
(***************************************************************************)
Get(f, k) == IF k \in DOMAIN f THEN f[k] ELSE "absent"

\* get_relations, lines 57-68: the Relation attributes after the copy
RelationsAfter(p, r) ==
    LET r1 == IF p.parameters.dark_matter # p.dark_matter
              THEN DMRelations(p.dark_matter) @@ r ELSE r
    IN  IF p.parameters.host # p.host THEN HostRelations(p.host) @@ r1 ELSE r1

\* get_relations, lines 62 and 68: line 68 compares and assigns nothing
ParametersAfter(p) ==
    [p.parameters EXCEPT !.dark_matter = p.dark_matter]

PopAfter(p) == [p EXCEPT !.parameters = ParametersAfter(p)]

\* sources_of_scatter: the sample_scatter of every relation that has one
SourcesOfScatter(r, fl) ==
    [name \in {x \in DOMAIN r : r[x] \in DOMAIN fl} |-> fl[r[name]]]

\* set_scatter, lines 96-97, in the order the dictionary is iterated
RECURSIVE SetFlags(_, _, _, _)
SetFlags(fl, r, sources, order) ==
    IF order = << >> THEN fl
    ELSE LET name == Head(order)
             obj  == r[name]
         IN  SetFlags((obj :> sources[name]) @@ fl, r, sources, Tail(order))


\* m[mask]: the elements of m whose mask is set, in order
RECURSIVE Compress(_, _)
Compress(m, mask) ==
    IF m = << >> THEN << >>
    ELSE (IF Head(mask) THEN <<Head(m)>> ELSE << >>) \o Compress(Tail(m), Tail(mask))

\* sum(mask)
RECURSIVE Count(_)
Count(mask) ==
    IF mask = << >> THEN 0 ELSE (IF Head(mask) THEN 1 ELSE 0) + Count(Tail(mask))

\* the position of element i of m among the elements of m[mask]
Rank(mask, i) == Count(SubSeq(mask, 1, i))

\* the mask with np.less for np.less_equal
WDMMaskStrict(m, u) == [i \in DOMAIN m |-> u[i] < TransferFunction(m[i])]

\* np.less_equal(random.random(size=len(m)), tf)
WDMMask(m, u) == [i \in DOMAIN m |-> u[i] <= TransferFunction(m[i])]

\* _sample_subhalo_masses: the masses it returns
SubhaloMasses(d, sampled, u) ==
    IF d = "WDM" THEN Compress(sampled, WDMMask(sampled, u)) ELSE sampled

\* _sample_subhalo_masses: host.number_of_subhalos when it returns
SubhalosAfter(d, n, sampled, u) ==
    IF d = "WDM" THEN Count(WDMMask(sampled, u)) ELSE n

\* generate_population sampling the sizes before the stellar masses
PipelineSizesFirst ==
    <<"mass", "c200", "rhalf2D", "mass_stars", "density_profile", "sigLOS">>

\* generate_population, lines 19-30: the keys in the order they are written
Pipeline == <<"mass", "c200", "mass_stars", "rhalf2D", "density_profile", "sigLOS">>

\* the keys of properties the stage writing `key` reads
Reads(key, profile) ==
    CASE key = "mass"            -> {}
      [] key = "c200"            -> {"mass"}
      [] key = "mass_stars"      -> {"mass"}
      [] key = "rhalf2D"         -> {"mass_stars"}
      [] key = "density_profile" -> IF profile = "mix" THEN {"mass"} ELSE {}
      [] key = "sigLOS"          -> {"mass_stars", "mass", "rhalf2D", "c200"}
                                      \cup (IF profile = "mix" THEN {"density_profile"} ELSE {})

\* the sample_scatter of the relation the population holds under `name`
FlagOf(r, fl, name) == name \in DOMAIN r /\ r[name] \in DOMAIN fl /\ fl[r[name]]

\* _sample_concentrations on the arrays in props
Concentrations(p, r, fl, props) ==
    LET c  == ConcentrationValue(FlagOf(r, fl, "concentration"), props["mass"], p.z_infall)
        ra == RelationsAfter(p, r)
    IN  IF \E name \in DOMAIN ra : IsModifiedConcentration(ra[name])
        THEN ModifiedConcentrationValue(c, p.dark_matter) ELSE c

\* _sample_stellar_masses, occ being what mask_dark_galaxies returns
StellarMasses(p, r, fl, props, occ) ==
    LET mass  == props["mass"]
        mstar == SMHMCallValue("Moster13", FlagOf(r, fl, "smhm"), mass, p.z_infall,
                               Draw(SMHMScatter("Moster13"), mass))
    IN  [i \in DOMAIN mass |-> Times(mstar[i], occ[i])]

\* _sample_galaxy_sizes for n = host.number_of_subhalos
GalaxySizes(r, fl, props, n) ==
    LET mstar  == props["mass_stars"]
        lit    == [i \in DOMAIN mstar |-> mstar[i] # Zero]
        bright == Compress(mstar, lit)
        sizes  == GalaxySizeCallValue(FlagOf(r, fl, "rhalf_2D"), bright,
                                      Draw(Read17Scatter, bright))
    IN  [i \in 1 .. n |-> IF lit[i] THEN sizes[Rank(lit, i)] ELSE Zero]

\* the profile switch with <= for <
ProfileTagsInclusive(p, props, n) ==
    IF p.density_profile # "mix"
    THEN [i \in 1 .. n |-> p.density_profile]
    ELSE [i \in 1 .. n |->
            IF props["mass"][i] <= p.mswitch_profile THEN "nfw" ELSE "coreNFW"]

\* generate_population, lines 24-28
ProfileTags(p, props, n) ==
    IF p.density_profile # "mix"
    THEN [i \in 1 .. n |-> p.density_profile]
    ELSE [i \in 1 .. n |->
            IF props["mass"][i] < p.mswitch_profile THEN "nfw" ELSE "coreNFW"]

\* sample_velocity_dispersions
VelocityDispersions(p, props, n) ==
    LET mass  == props["mass"]
        mstar == props["mass_stars"]
        re    == props["rhalf2D"]
        c     == props["c200"]
    IN  IF p.density_profile # "mix"
        THEN [i \in DOMAIN mass |->
                MvirToSigLOS(mass[i], p.density_profile, mstar[i], re[i], c[i],
                             p.dark_matter = "SIDM")]
        ELSE [i \in 1 .. n |->
                IF mstar[i] # Zero
                THEN MvirToSigLOS(mass[i], props["density_profile"][i], mstar[i],
                                  re[i], c[i], FALSE)
                ELSE Zero]

\* whether the arrays a stage indexes together have the lengths it needs
\* (numpy raises IndexError on a boolean index of another length)
Aligned(key, p, props, n) ==
    CASE key = "rhalf2D"         -> Len(props["mass_stars"]) = n
      [] key = "density_profile" -> p.density_profile # "mix" \/ Len(props["mass"]) = n
      [] key = "sigLOS"          -> /\ Len(props["mass_stars"]) = Len(props["mass"])
                                    /\ Len(props["rhalf2D"]) = Len(props["mass"])
                                    /\ Len(props["c200"]) = Len(props["mass"])
                                    /\ (p.density_profile = "mix" =>
                                          /\ Len(props["mass"]) = n
                                          /\ Len(props["density_profile"]) = n)
      [] OTHER                   -> TRUE

\* one stage of generate_population on the running state e of the call:
\* e.p, e.r, e.n are the population, its relations and the host's
\* number_of_subhalos, e.props the mapping, e.log the stages so far
Stage(e, key, fl, sampled, u, occ) ==
    LET reads == Reads(key, e.p.density_profile)
        entry == [key |-> key, reads |-> reads]
    IN  IF ~e.ok THEN e
        ELSE IF ~(reads \subseteq DOMAIN e.props) \/ ~Aligned(key, e.p, e.props, e.n)
        THEN [e EXCEPT !.ok = FALSE]
        ELSE LET value ==
                   CASE key = "mass"            -> SubhaloMasses(e.p.dark_matter, sampled, u)
                     [] key = "c200"            -> Concentrations(e.p, e.r, fl, e.props)
                     [] key = "mass_stars"      ->
                            StellarMasses(e.p, e.r, fl, e.props,
                                           [i \in DOMAIN e.props["mass"] |->
                                               IF i \in DOMAIN occ THEN occ[i] ELSE 0])
                     [] key = "rhalf2D"         -> GalaxySizes(e.r, fl, e.props, e.n)
                     [] key = "density_profile" -> ProfileTags(e.p, e.props, e.n)
                     [] key = "sigLOS"          -> VelocityDispersions(e.p, e.props, e.n)
             IN  [e EXCEPT
                    !.props = (key :> value) @@ e.props,
                    !.log = Append(e.log, entry),
                    !.n = IF key = "mass"
                          THEN SubhalosAfter(e.p.dark_matter, e.n, sampled, u) ELSE @,
                    !.r = IF key = "c200" THEN RelationsAfter(e.p, e.r) ELSE @,
                    !.p = IF key = "c200" THEN PopAfter(e.p) ELSE @]

RECURSIVE RunPipeline(_, _, _, _, _, _)
RunPipeline(e, keys, fl, sampled, u, occ) ==
    IF keys = << >> THEN e
    ELSE RunPipeline(Stage(e, Head(keys), fl, sampled, u, occ), Tail(keys),
                     fl, sampled, u, occ)


(***************************************************************************)
(* The population after MilkyWaySatellites.__init__ and _finish_setup.     *)
(***************************************************************************)
ChosenRelations ==
    ("concentration" :> "Diemer19") @@ ("smhm" :> "Moster13")
      @@ ("occupation_fraction" :> "Dooley17") @@ ("rhalf_2D" :> "Read17")

\* _finish_setup copies the dark-matter model's relations, then the host's
FinishSetup(d, h) == HostRelations(h) @@ DMRelations(d) @@ ChosenRelations

NewPopulation(density_profile, cosmology) ==
    [z_infall |-> 1, min_mass |-> 7000, massdef |-> "200c",
     density_profile |-> density_profile, mswitch_profile |-> MswitchProfile,
     mleft |-> 0, dark_matter |-> cosmology, host |-> "MilkyWay",
     parameters |-> [dark_matter |-> cosmology, host |-> "MilkyWay"]]

\* scatter=True for Diemer19, Moster13 and Read17
InitialFlags == ("Diemer19" :> TRUE) @@ ("Moster13" :> TRUE) @@ ("Read17" :> TRUE)

Did(op) == [op |-> op, sources |-> Empty]

NoDraws == [requested |-> 0, sampled |-> << >>, u |-> << >>]

InitPopulation(density_profile, cosmology, n) ==
    /\ pop = NewPopulation(density_profile, cosmology)
    /\ rels = FinishSetup(cosmology, "MilkyWay")
    /\ flag = InitialFlags
    /\ nsub = [h \in Hosts |-> n]
    /\ properties = Empty
    /\ stages = << >>
    /\ draws = NoDraws
    /\ last = Did("__init__")
    /\ synced = TRUE
    /\ edits = 0

Init ==
    /\ call = Idle
    /\ \E density_profile \in DensityProfiles, cosmology \in DarkMatters :
          InitPopulation(density_profile, cosmology, MaxSubhalos)

\* a default population with one subhalo above min_mass
InitDefault ==
    /\ call = Idle
    /\ InitPopulation("mix", "CDM", 1)

\* a default population with no subhalo above min_mass
InitBare ==
    /\ call = Idle
    /\ InitPopulation("mix", "CDM", 0)

InitRel ==
    /\ call \in RelationRequests \cup GalaxySizeRequests \cup WrapperRequests
    /\ InitPopulation("mix", "CDM", 0)

(***************************************************************************)
(* The operations of SatellitePopulation.                                  *)
(***************************************************************************)
GeneratePopulation ==
    LET n == nsub[pop.host]
    IN  \E sampled \in [1 .. n -> PopMasses] :
        \E u \in (IF pop.dark_matter = "WDM" THEN [1 .. n -> Uniforms] ELSE {<< >>}) :
        \E occ \in [1 .. SubhalosAfter(pop.dark_matter, n, sampled, u) -> {Zero, 0}] :
        \E e \in {RunPipeline([p |-> pop, r |-> rels, n |-> n, props |-> properties,
                                log |-> << >>, ok |-> TRUE],
                               Pipeline, flag, sampled, u, occ)} :
                /\ pop' = e.p
                /\ rels' = e.r
                /\ nsub' = [nsub EXCEPT ![pop.host] = e.n]
                /\ properties' = e.props
                /\ stages' = e.log
                /\ draws' = [requested |-> n, sampled |-> sampled, u |-> u]
                /\ last' = Did("generate_population")
                /\ synced' = (synced \/ \E i \in DOMAIN e.log : e.log[i].key = "c200")
                /\ UNCHANGED <<call, flag, edits>>

GetInputParameters ==
    /\ last' = Did("get_input_parameters")
    /\ UNCHANGED <<call, pop, rels, flag, nsub, properties, stages, draws, synced, edits>>

PrintInputParameters ==
    /\ last' = Did("print_input_parameters")
    /\ UNCHANGED <<call, pop, rels, flag, nsub, properties, stages, draws, synced, edits>>

GetRelations ==
    /\ rels' = RelationsAfter(pop, rels)
    /\ pop' = PopAfter(pop)
    /\ last' = Did("get_relations")
    /\ synced' = TRUE
    /\ UNCHANGED <<call, flag, nsub, properties, stages, draws, edits>>

PrintRelations ==
    /\ rels' = RelationsAfter(pop, rels)
    /\ pop' = PopAfter(pop)
    /\ last' = Did("print_relations")
    /\ synced' = TRUE
    /\ UNCHANGED <<call, flag, nsub, properties, stages, draws, edits>>

CallSourcesOfScatter ==
    /\ rels' = RelationsAfter(pop, rels)
    /\ pop' = PopAfter(pop)
    /\ last' = Did("sources_of_scatter")
    /\ synced' = TRUE
    /\ UNCHANGED <<call, flag, nsub, properties, stages, draws, edits>>

SampleVelocityDispersions ==
    /\ last' = Did("sample_velocity_dispersions")
    /\ UNCHANGED <<call, pop, rels, flag, nsub, properties, stages, draws, synced, edits>>

\* _sample_concentrations called on its own: properties['mass'] is read first
SampleConcentrations ==
    /\ "mass" \in DOMAIN properties
    /\ rels' = RelationsAfter(pop, rels)
    /\ pop' = PopAfter(pop)
    /\ last' = Did("_sample_concentrations")
    /\ synced' = TRUE
    /\ UNCHANGED <<call, flag, nsub, properties, stages, draws, edits>>

\* the dictionaries handed to set_scatter: names of relations of the population
SourceDicts(names) ==
    UNION {[K -> BOOLEAN] : K \in {K \in SUBSET names : Cardinality(K) \in 1 .. MaxKeys}}

\* the order in which the dictionary is iterated; the relations a
\* population holds are distinct objects, so every order sets the same flags
RECURSIVE KeyOrder(_)
KeyOrder(K) ==
    IF K = {} THEN << >>
    ELSE LET k == CHOOSE x \in K : TRUE IN <<k>> \o KeyOrder(K \ {k})

\* set_scatter setting the population up again, which empties properties
SetScatterToResetting(sources) ==
    /\ edits < MaxEdits
    /\ rels' = RelationsAfter(pop, rels)
    /\ pop' = PopAfter(pop)
    /\ flag' = SetFlags(flag, RelationsAfter(pop, rels), sources, KeyOrder(DOMAIN sources))
    /\ properties' = Empty
    /\ last' = [op |-> "set_scatter", sources |-> sources]
    /\ synced' = TRUE
    /\ edits' = edits + 1
    /\ UNCHANGED <<call, nsub, stages, draws>>

SetScatterTo(sources) ==
    /\ edits < MaxEdits
    /\ rels' = RelationsAfter(pop, rels)
    /\ pop' = PopAfter(pop)
    /\ flag' = SetFlags(flag, RelationsAfter(pop, rels), sources, KeyOrder(DOMAIN sources))
    /\ last' = [op |-> "set_scatter", sources |-> sources]
    /\ synced' = TRUE
    /\ edits' = edits + 1
    /\ UNCHANGED <<call, nsub, properties, stages, draws>>

SetScatter ==
    \E sources \in SourceDicts(DOMAIN RelationsAfter(pop, rels)) : SetScatterTo(sources)

\* the user replaces the host: population.host = h
ReplaceHost ==
    \E h \in Hosts \ {pop.host} :
        /\ edits < MaxEdits
        /\ pop' = [pop EXCEPT !.host = h]
        /\ last' = Did("host =")
        /\ synced' = FALSE
        /\ edits' = edits + 1
        /\ UNCHANGED <<call, rels, flag, nsub, properties, stages, draws>>

\* the user replaces the dark-matter model: population.dark_matter = d
ReplaceDarkMatter ==
    \E d \in DarkMatters \ {pop.dark_matter} :
        /\ edits < MaxEdits
        /\ pop' = [pop EXCEPT !.dark_matter = d]
        /\ last' = Did("dark_matter =")
        /\ synced' = FALSE
        /\ edits' = edits + 1
        /\ UNCHANGED <<call, rels, flag, nsub, properties, stages, draws>>

\* the user puts a relation of their own on the population: population.<name> = r
AssignRelation ==
    \E name \in CopiedNames :
        /\ edits < MaxEdits
        /\ rels' = (name :> Custom(name)) @@ rels
        /\ last' = Did("relation =")
        /\ edits' = edits + 1
        /\ UNCHANGED <<call, pop, flag, nsub, properties, stages, draws, synced>>

\* generate_population on populations of every dark-matter model and
\* density profile
NextPipeline == GeneratePopulation

SpecPipeline == Init /\ [][NextPipeline]_vars

\* the public operations on a default population
Next ==
    \/ GeneratePopulation
    \/ GetInputParameters
    \/ PrintInputParameters
    \/ GetRelations
    \/ PrintRelations
    \/ CallSourcesOfScatter
    \/ SetScatter
    \/ SampleVelocityDispersions

Spec == InitDefault /\ [][Next]_vars

\* the user also replaces the host, the dark-matter model and relations
NextReconfigure ==
    \/ Next
    \/ SampleConcentrations
    \/ ReplaceHost
    \/ ReplaceDarkMatter
    \/ AssignRelation

SpecReconfigure == InitBare /\ [][NextReconfigure]_vars

\* one evaluation of a relation of smhm.py or galaxy_size.py
SpecRel == InitRel /\ [][NextRel]_vars


(***************************************************************************)
(* Properties of the relations (SpecRel).                                  *)
(***************************************************************************)
Range(f) == {f[i] : i \in DOMAIN f}

\* the model strings the wrapper documents, and the relation of each
DocumentedModels ==
    [m13 |-> "Moster13", d17 |-> "Dooley17", b14 |-> "Brook14", b13 |-> "Behroozi13"]

Z0Only == {"Dooley17", "Brook14", "Behroozi13"}

RedshiftWarnings == {RedshiftWarning(cls) : cls \in Z0Only}

\* the central value the caller of the evaluation in `call` expects
ExpectedMedian(z) ==
    [i \in DOMAIN call.mass |->
        CASE call.op = "GalaxySize.__call__" -> Read17Central(call.mass[i])
          [] call.op = "SMHM.__call__"       -> CentralValue(call.cls, call.mass[i], z)
          [] call.op = "SMHM"                -> CentralValue(DocumentedModels[call.model],
                                                             call.mass[i], z)]

\* C1: a relation whose sample_scatter is disabled (Moster13, Dooley17,
\* Brook14, Behroozi13, Read17, or the SMHM wrapper with scatter=False)
\* returns exactly central_value of the same inputs.
C1_ScatterDisabledReturnsMedian ==
    (call.status = "returned" /\ ~call.scatter) => call.result = ExpectedMedian(call.z)

C1_Witness ==
    /\ call.op = "SMHM"
    /\ call.status = "returned"
    /\ ~call.scatter
    /\ call.model = "d17"
    /\ Len(call.mass) = 2
    /\ call.mass[1] # call.mass[2]

\* C2: the wrapper raises ValueError for every model string other than
\* m13, d17, b14, b13, before any relation is constructed or evaluated; for
\* each of the four it evaluates the matching relation and raises nothing.
C2_WrapperDispatch ==
    (call.op = "SMHM" /\ call.status # "pending") =>
        IF call.model \in DOMAIN DocumentedModels
        THEN /\ call.status = "returned"
             /\ call.constructed = DocumentedModels[call.model]
             /\ call.evaluated
             /\ call.median = ExpectedMedian(call.z)
        ELSE /\ call.status = "ValueError"
             /\ call.constructed = "none"
             /\ ~call.evaluated
             /\ call.result = << >>

C2_Witness ==
    /\ call.op = "SMHM"
    /\ call.model = "M13"
    /\ call.status = "ValueError"

\* C3: a z=0-only relation evaluated at z # 0 warns, does not raise and
\* returns the central value of z = 0; at z = 0 it emits no redshift warning;
\* Moster13 never emits one.
C3_RedshiftWarnings ==
    (call.op \in {"SMHM.__call__", "SMHM"} /\ call.status # "pending"
       /\ (call.op = "SMHM" => call.model \in DOMAIN DocumentedModels)) =>
        /\ call.status = "returned"
        /\ (call.cls \in Z0Only /\ call.z # 0) =>
              /\ RedshiftWarning(call.cls) \in Range(call.warnings)
              /\ call.median = ExpectedMedian(0)
        /\ (call.cls \in Z0Only /\ call.z = 0) =>
              Range(call.warnings) \cap RedshiftWarnings = {}
        /\ call.cls = "Moster13" => Range(call.warnings) \cap RedshiftWarnings = {}

C3_Witness ==
    /\ call.op = "SMHM.__call__"
    /\ call.status = "returned"
    /\ call.cls = "Brook14"
    /\ call.z = 2
    /\ RedshiftWarning("Brook14") \in Range(call.warnings)

(***************************************************************************)
(* Properties of generate_population (SpecPipeline).                       *)
(***************************************************************************)
Keys == {"mass", "c200", "mass_stars", "rhalf2D", "density_profile", "sigLOS"}

Generated == last.op = "generate_population"

\* what each stage may read, as documented
DocumentedReads ==
    [mass |-> {}, c200 |-> {"mass"}, mass_stars |-> {"mass"}, rhalf2D |-> {"mass_stars"},
     density_profile |-> {"mass"},
     sigLOS |-> {"mass", "c200", "mass_stars", "rhalf2D", "density_profile"}]

\* C4: generate_population writes mass, c200, mass_stars, rhalf2D,
\* density_profile, sigLOS in this order, every stage reads only keys an
\* earlier stage of the same call wrote (and only the keys documented for
\* it), and all six keys are present when the call returns.
C4_StageOrder ==
    Generated =>
        /\ [i \in DOMAIN stages |-> stages[i].key]
             = <<"mass", "c200", "mass_stars", "rhalf2D", "density_profile", "sigLOS">>
        /\ \A i \in DOMAIN stages :
              /\ stages[i].reads \subseteq {stages[j].key : j \in 1 .. i - 1}
              /\ stages[i].reads \subseteq DocumentedReads[stages[i].key]
              /\ pop.density_profile = "mix" =>
                    stages[i].reads = DocumentedReads[stages[i].key]
        /\ DOMAIN properties = Keys

C4_Witness ==
    /\ Generated
    /\ Len(stages) = 6
    /\ pop.density_profile = "mix"
    /\ stages[6].reads = DocumentedReads["sigLOS"]
    /\ Len(properties["sigLOS"]) = 2

\* C5: generate_population changes nothing but properties: under every
\* dark-matter model the pipeline's inputs (the population's attributes, its
\* relations and their flags, the host's number_of_subhalos) are the same
\* after a call as before it, and each call requests the same number of
\* subhalos from the host's subhalo mass function.
C5_Stateless ==
    [][last'.op = "generate_population" =>
          /\ pop' = pop
          /\ rels' = rels
          /\ flag' = flag
          /\ nsub' = nsub
          /\ (Generated => draws'.requested = draws.requested)]_vars

\* C7: when density_profile is not 'mix' every tag equals density_profile;
\* when it is 'mix' a tag is 'nfw' exactly when the subhalo's mass is strictly
\* below mswitch_profile (5e8) and 'coreNFW' otherwise.
C7_ProfileSwitch ==
    (Generated /\ "density_profile" \in DOMAIN properties) =>
        /\ pop.mswitch_profile = 8699
        /\ DOMAIN properties["density_profile"] = DOMAIN properties["mass"]
        /\ \A i \in DOMAIN properties["density_profile"] :
              LET tag == properties["density_profile"][i]
                  m   == properties["mass"][i]
              IN  IF pop.density_profile # "mix"
                  THEN tag = pop.density_profile
                  ELSE /\ tag \in {"nfw", "coreNFW"}
                       /\ tag = "nfw" <=> m < 8699
                       /\ m = 8699 => tag = "coreNFW"

C7_Witness ==
    /\ Generated
    /\ pop.density_profile = "mix"
    /\ Len(properties["mass"]) = 2
    /\ properties["mass"][1] = 8699
    /\ properties["density_profile"][1] = "coreNFW"
    /\ properties["density_profile"][2] = "nfw"

KeptDraw(pair) == pair[2] <= TransferFunction(pair[1])

\* the sampled masses whose draw is at most the transfer function, in order
Retained ==
    LET pairs == [i \in DOMAIN draws.sampled |-> <<draws.sampled[i], draws.u[i]>>]
        kept  == SelectSeq(pairs, KeptDraw)
    IN  [i \in DOMAIN kept |-> kept[i][1]]

\* C10: after generate_population the six arrays have one length, which is
\* host.number_of_subhalos; under WDM the masses kept are the sampled masses
\* whose draw is less than or equal to the transfer function, in sampled
\* order; every satellite with mass_stars = 0 has rhalf2D = 0.
C10_ArrayLengths ==
    Generated =>
        /\ DOMAIN properties = Keys
        /\ \A k \in Keys : Len(properties[k]) = nsub[pop.host]
        /\ properties["mass"]
             = (IF pop.dark_matter = "WDM" THEN Retained ELSE draws.sampled)
        /\ \A i \in DOMAIN properties["mass_stars"] :
              properties["mass_stars"][i] = Zero => properties["rhalf2D"][i] = Zero

C10_Witness ==
    /\ Generated
    /\ pop.dark_matter = "WDM"
    /\ Len(draws.sampled) = 2
    /\ draws.u[2] = TransferFunction(draws.sampled[2])
    /\ properties["mass"] = <<draws.sampled[2]>>
    /\ nsub[pop.host] = 1
    /\ properties["mass_stars"] = <<Zero>>
    /\ properties["rhalf2D"] = <<Zero>>


(***************************************************************************)
(* Properties of the public operations (Spec) and of a reconfigured        *)
(* population (SpecReconfigure).                                           *)
(***************************************************************************)
\* C6: no operation but generate_population changes properties: every key
\* and every element of every array is the same after get_input_parameters,
\* print_input_parameters, get_relations, print_relations,
\* sources_of_scatter, set_scatter and sample_velocity_dispersions.
C6_PropertiesFrozen ==
    [][last'.op # "generate_population" => properties' = properties]_vars

C6_Witness ==
    /\ last.op = "set_scatter"
    /\ DOMAIN properties = Keys
    /\ Len(properties["mass"]) = 1
    /\ properties["mass_stars"][1] # Zero
    /\ ~flag["Moster13"]

GetRelationsCallers ==
    {"get_relations", "print_relations", "sources_of_scatter", "set_scatter",
     "_sample_concentrations"}

\* C8: when get_relations returns, parameters['dark_matter'] is the current
\* dark_matter and parameters['host'] the current host; so once get_relations
\* has run after a replacement, a later get_relations, print_relations,
\* sources_of_scatter, set_scatter or _sample_concentrations leaves the
\* population's relations, a relation the user has assigned included, in place.
C8_RelationsTrackReplacement ==
    /\ [](last.op \in GetRelationsCallers =>
            /\ pop.parameters.dark_matter = pop.dark_matter
            /\ pop.parameters.host = pop.host)
    /\ [][(last'.op \in GetRelationsCallers /\ synced) => rels' = rels]_vars

\* what sources_of_scatter() returns in the current state
Reported(p, r, fl) == SourcesOfScatter(RelationsAfter(p, r), fl)

\* whether the population's relation `name` has its sample_scatter set
FlagSet(name) ==
    name \in DOMAIN Reported(pop, rels, flag) /\ Reported(pop, rels, flag)[name]

\* generate_population sampled scatter in the stellar masses and in the
\* sizes exactly when the flag of smhm, of rhalf_2D, is set
ScatterFollowsFlags ==
    \A i \in DOMAIN properties["mass_stars"] :
        LET mass  == properties["mass"][i]
            mstar == properties["mass_stars"][i]
            re    == properties["rhalf2D"][i]
        IN  mstar # Zero =>
              /\ mstar # CentralValue("Moster13", mass, pop.z_infall) <=> FlagSet("smhm")
              /\ re # Read17Central(mstar) <=> FlagSet("rhalf_2D")

\* C9: after set_scatter(sources), sources_of_scatter() maps each
\* key to the value given and every other relation to the value it had, the
\* set of names reported is unchanged, and the next generate_population
\* samples scatter for exactly the relations whose flag is true.
C9_RoundTripSameNames ==
    /\ [][last'.op = "set_scatter" =>
            LET given  == last'.sources
                before == Reported(pop, rels, flag)
                after  == Reported(pop', rels', flag')
            IN  /\ \A k \in DOMAIN given : k \in DOMAIN after /\ after[k] = given[k]
                /\ \A k \in DOMAIN before \ DOMAIN given :
                      k \in DOMAIN after /\ after[k] = before[k]
                /\ DOMAIN after = DOMAIN before]_vars
    /\ [](Generated => ScatterFollowsFlags)

=============================================================================
